---- MODULE Spec2Model ----
(***************************************************************************)
(* One request through the POST handler of src/app/api/llm/route.ts:       *)
(* validation, search, denylist filtering, batch scrape, context building  *)
(* (direct or embedding mode), LLM routing and response assembly.          *)
(*                                                                         *)
(* The handler is an async function; the model has one action per          *)
(* continuation, i.e. per piece of code that runs between two awaits on an *)
(* external collaborator.  The collaborators (search, scrape, embedding,   *)
(* LLM routing) are the environment: their answers are drawn with \E.      *)
(*                                                                         *)
(* Strings the code inspects character by character (URLs, titles) are     *)
(* sequences of one-character strings.  An optional value is <<>> when it  *)
(* is undefined and <<v>> when it is v.                                    *)
(***************************************************************************)
EXTENDS Integers, Sequences, FiniteSets, TLC

\* ------------------------------------------------------------------ bounds
\* caller-supplied pagesToCrawl ranges over (1 - PagesBelow) .. (10 + PagesAbove)
PagesBelow == 2
PagesAbove == 2
\* the search collaborator returns at most MaxOrganic organic results
MaxOrganic == 11
\* an organic result list repeats a pattern of at most MaxPattern links
MaxPattern == 2
\* the scrape collaborator returns at most MaxDocs documents
MaxDocs == 2
\* a markdown body splits into at most MaxWindows windows
MaxWindows == 2

\* ------------------------------------------------------- program constants
DefaultPagesToCrawl == 3
MinPagesToCrawl == 1
MaxPagesToCrawl == 10
numberOfSimilarityResults == 2

\* ------------------------------------------------------------ string data
UpperCase ==
    <<"A","B","C","D","E","F","G","H","I","J","K","L","M","N","O","P","Q","R","S","T","U","V","W","X","Y","Z">>

LowerCase ==
    <<"a","b","c","d","e","f","g","h","i","j","k","l","m","n","o","p","q","r","s","t","u","v","w","x","y","z">>

\* String.prototype.toLowerCase, one character
ToLowerChar(c) ==
    IF \E i \in 1..Len(UpperCase) : UpperCase[i] = c
    THEN LowerCase[CHOOSE i \in 1..Len(UpperCase) : UpperCase[i] = c]
    ELSE c

\* String.prototype.toLowerCase
ToLowerCase(s) == [i \in 1..Len(s) |-> ToLowerChar(s[i])]

\* String.prototype.includes
Includes(s, sub) ==
    \E i \in 0..(Len(s) - Len(sub)) : SubSeq(s, i + 1, i + Len(sub)) = sub

unsupportedDomains ==
    << <<"t","w","i","t","t","e","r",".","c","o","m">>,
       <<"x",".","c","o","m">>,
       <<"f","a","c","e","b","o","o","k",".","c","o","m">>,
       <<"f","b",".","c","o","m">>,
       <<"i","n","s","t","a","g","r","a","m",".","c","o","m">>,
       <<"l","i","n","k","e","d","i","n",".","c","o","m">>,
       <<"t","i","k","t","o","k",".","c","o","m">>,
       <<"y","o","u","t","u","b","e",".","c","o","m">>,
       <<"r","e","d","d","i","t",".","c","o","m">>,
       <<"t","h","r","e","a","d","s",".","n","e","t">>,
       <<"p","i","n","t","e","r","e","s","t",".","c","o","m">>,
       <<"t","u","m","b","l","r",".","c","o","m">>,
       <<"s","n","a","p","c","h","a","t",".","c","o","m">> >>

\* "a.io/doc": a scrapable page whose last path segment is "doc"
UrlDoc == <<"a",".","i","o","/","d","o","c">>
\* "b.org/": a scrapable page whose URL ends in a slash
UrlDir == <<"b",".","o","r","g","/">>
\* "X.com/u": a denylisted page, written in upper case
UrlX == <<"X",".","c","o","m","/","u">>

\* the links the search collaborator may rank, and the source URLs the scrape
\* collaborator may report
Urls == {UrlDoc, UrlDir, UrlX}

NoValidUrl == <<"N","o"," ","v","a","l","i","d"," ","U","R","L","s">>
NoResultsTitle == <<"N","o"," ","R","e","s","u","l","t","s">>
ScrapingFailedUrl == <<"S","c","r","a","p","i","n","g"," ","f","a","i","l","e","d">>
ErrorTitle == <<"E","r","r","o","r">>
TitleNotAvailable == <<"T","i","t","l","e"," ","n","o","t"," ","a","v","a","i","l","a","b","l","e">>

\* --------------------------------------------------------------- helpers
Min(a, b) == IF a < b THEN a ELSE b
Max(a, b) == IF a > b THEN a ELSE b

\* Array.prototype.slice(0, n), negative n counting from the end
Slice0(s, n) ==
    IF n >= 0 THEN SubSeq(s, 1, Min(n, Len(s)))
    ELSE SubSeq(s, 1, Max(Len(s) + n, 0))

Range(s) == {s[i] : i \in 1..Len(s)}

\* all sequences over S of length lo..hi
SeqsOf(S, lo, hi) == UNION {[1..n -> S] : n \in lo..hi}

\* the pattern repeated up to length n
Cycle(pattern, n) == [i \in 1..n |-> pattern[((i - 1) % Len(pattern)) + 1]]

\* ------------------------------------------------------------ the request
\* RequestBody (a missing field is <<>>)
PagesSupplied == (MinPagesToCrawl - PagesBelow)..(MaxPagesToCrawl + PagesAbove)

RequestBody ==
    [message : {<<>>, <<"">>, <<"q">>},
     pagesToCrawl : {<<>>} \cup {<<n>> : n \in PagesSupplied},
     skipEmbeddings : {<<>>, <<TRUE>>, <<FALSE>>}]

\* the destructuring defaults of the handler
PagesToCrawl(b) ==
    IF b.pagesToCrawl = <<>> THEN DefaultPagesToCrawl ELSE b.pagesToCrawl[1]

SkipEmbeddings(b) ==
    IF b.skipEmbeddings = <<>> THEN FALSE ELSE b.skipEmbeddings[1]

\* a check that only catches a missing message, not an empty one
MessageUndefined(b) == b.message = <<>>

\* !message
MessageMissing(b) == IF b.message = <<>> THEN TRUE ELSE b.message[1] = ""

\* a clamp that lost its upper limit
ValidatedWithoutCeiling(p) == Max(MinPagesToCrawl, p)

\* Math.min(Math.max(1, pagesToCrawl), 10)
ValidatedPagesToCrawl(p) == Min(Max(MinPagesToCrawl, p), MaxPagesToCrawl)

\* NextResponse.json({ error }, { status })
ErrorResponse(status, msg) == [status |-> status, error |-> <<msg>>, payload |-> <<>>]

\* NextResponse.json(response)
SuccessResponse(payload) == [status |-> 200, error |-> <<>>, payload |-> <<payload>>]

\* ------------------------------------------------------- search and filter
\* what the fetch of the search endpoint can do: reject, or resolve to a
\* response with an ok flag and a JSON body that has or lacks `organic`
\* (organic results are reduced to their links, the only field read later)
OrganicLists ==
    {Cycle(p, n) : p \in SeqsOf(Urls, 1, MaxPattern), n \in 0..MaxOrganic}

SearchResponses ==
    {[kind |-> "reject", ok |-> FALSE, status |-> 0, organic |-> <<>>]}
    \cup [kind : {"response"}, ok : {FALSE}, status : {500},
          organic : {<<>>, << <<UrlDoc>> >>}]
    \cup [kind : {"response"}, ok : {TRUE}, status : {200},
          organic : {<<>>} \cup {<<o>> : o \in OrganicLists}]

\* a search that does not look at response.ok
SearchThrowsIgnoringStatus(resp) ==
    \/ resp.kind = "reject"
    \/ resp.organic = <<>>

\* serperSearch throws: fetch rejected, !response.ok, or organic undefined
SearchThrows(resp) ==
    \/ resp.kind = "reject"
    \/ ~resp.ok
    \/ resp.organic = <<>>

SearchErrorMessage(resp) ==
    IF resp.kind = "reject" THEN "fetch failed"
    ELSE IF ~resp.ok THEN "Serper API error: 500"
    ELSE "Cannot read properties of undefined (reading 'slice')"

\* responseData.organic.slice(0, numberOfPagesToScan).map(...), then .link
SearchLinks(resp, numberOfPagesToScan) == Slice0(resp.organic[1], numberOfPagesToScan)

\* unsupportedDomains.some((domain) => lowerUrl.includes(domain))
IsUnsupported(url) ==
    LET lowerUrl == ToLowerCase(url)
    IN  \E i \in 1..Len(unsupportedDomains) : Includes(lowerUrl, unsupportedDomains[i])

FilterUrls(urls) == SelectSeq(urls, LAMBDA u : ~IsUnsupported(u))

\* the page content is kept as an opaque token; the splitter decides later
\* how many windows it yields
SentinelText == "sentinel"
Markdown == "markdown"

\* an early return that hands back no page at all
NoPages == <<>>

NoValidUrlsPages ==
    << [url |-> NoValidUrl, title |-> NoResultsTitle, content |-> SentinelText] >>

ScrapingFailedPages ==
    << [url |-> ScrapingFailedUrl, title |-> ErrorTitle, content |-> SentinelText] >>

\* ----------------------------------------------------------------- scrape
\* FirecrawlDocument
Documents == [sourceURL : {<<>>} \cup {<<u>> : u \in Urls}, markdown : {<<>>, <<Markdown>>}]

\* what batchScrapeUrls can do: reject, or resolve to {success, data?}
ScrapeResponses ==
    {[kind |-> "reject", success |-> FALSE, data |-> <<>>]}
    \cup [kind : {"response"}, success : {FALSE}, data : {<<>>, << <<>> >>}]
    \cup [kind : {"response"}, success : {TRUE},
          data : {<<>>} \cup {<<d>> : d \in SeqsOf(Documents, 0, MaxDocs)}]

\* a check that only looks for missing data, not at the success flag
ScrapeLacksData(resp) == resp.data = <<>>

\* !scrapedData.success || !scrapedData.data
ScrapeReportsFailure(resp) == ~resp.success \/ resp.data = <<>>

\* sourceURL.split("/").pop()
LastSegment(url) ==
    LET slashes == {i \in 1..Len(url) : url[i] = "/"}
    IN  IF slashes = {} THEN url
        ELSE SubSeq(url, (CHOOSE i \in slashes : \A j \in slashes : j <= i) + 1, Len(url))

UrlNotAvailable == <<"U","R","L"," ","n","o","t"," ","a","v","a","i","l","a","b","l","e">>
ContentNotAvailable == "Content not available"

\* doc.metadata?.sourceURL && doc.markdown
DocumentKept(doc) == doc.sourceURL # <<>> /\ doc.markdown # <<>>

DocumentToPage(doc) ==
    [url |-> IF doc.sourceURL # <<>> THEN doc.sourceURL[1] ELSE UrlNotAvailable,
     title |-> IF doc.sourceURL # <<>> /\ LastSegment(doc.sourceURL[1]) # <<>>
               THEN LastSegment(doc.sourceURL[1]) ELSE TitleNotAvailable,
     content |-> IF doc.markdown # <<>> THEN doc.markdown[1] ELSE ContentNotAvailable]

\* scrapedData.data.filter(...).map(...)
DocumentsToPages(data) ==
    LET kept == SelectSeq(data, DocumentKept)
    IN  [i \in 1..Len(kept) |-> DocumentToPage(kept[i])]

\* the pages mapAndScrapeUrls returns for a resolved batch scrape
ScrapedPagesOf(resp) ==
    IF ScrapeReportsFailure(resp) THEN ScrapingFailedPages
    ELSE DocumentsToPages(resp.data[1])

\* sources = scrapedPages.map((page) => ({ title, url }))
SourcesOf(pages) == [i \in 1..Len(pages) |-> [title |-> pages[i].title, url |-> pages[i].url]]

\* ------------------------------------------------------- context building
\* the number of windows splitText can cut a page's content into: the
\* sentinel sentences are far below the window size; a markdown body holds
\* text and is cut into one window or more
WindowCounts(page) == IF page.content = Markdown THEN 1..MaxWindows ELSE {1}

\* MemoryVectorStore.fromTexts(splitText, { url, title }, embeddings): the
\* store's memoryVectors, one object per window (the embedding itself is
\* opaque), every one tagged with the same metadata object
StoreFromTexts(pageNo, windows, page) ==
    [w \in 1..windows |->
        [type |-> "object",
         content |-> <<pageNo, w>>,
         metadata |-> [url |-> page.url, title |-> page.title]]]

\* Array.isArray(v) for an element of memoryVectors
IsArray(v) == v.type = "array"

\* Array.isArray(vectors) && vectors.every((v) => Array.isArray(v)):
\* memoryVectors is an array of {content, embedding, metadata} objects
ArrayOfArrays(vectors) == \A j \in 1..Len(vectors) : IsArray(vectors[j])

\* one round of the combining loop; the guard holds of an empty store
\* only, so addVectors is never handed a vector
MergeStore(vectorStore, currentStore) ==
    IF ArrayOfArrays(currentStore) THEN vectorStore \o currentStore ELSE vectorStore

RECURSIVE CombineFrom(_, _, _)
CombineFrom(vectorStore, processedContent, i) ==
    IF i > Len(processedContent) THEN vectorStore
    ELSE CombineFrom(MergeStore(vectorStore, processedContent[i]), processedContent, i + 1)

\* processWithEmbeddings, given how many windows each page was cut into:
\* the store it returns, or <<>> (undefined) when there is no page
ProcessWithEmbeddings(pages, windows) ==
    LET processedContent ==
            [i \in 1..Len(pages) |-> StoreFromTexts(i, windows[i], pages[i])]
    IN  IF Len(pages) = 0 THEN <<>>
        ELSE << CombineFrom(processedContent[1], processedContent, 2) >>

\* vectorStore.similaritySearch(message, k): the k most similar entries of
\* the index in ranking order; the ranking is the collaborator's
SimilaritySearch(index, k) ==
    LET m == Min(k, Len(index))
        picks == {f \in [1..m -> 1..Len(index)] :
                     \A a, b \in 1..m : a # b => f[a] # f[b]}
    IN  {[j \in 1..m |-> [pageContent |-> index[f[j]].content,
                          metadata |-> index[f[j]].metadata]] : f \in picks}

\* processDirectContext: one labelled block per page, in input order
ProcessDirectContext(pages) ==
    [i \in 1..Len(pages) |->
        [Page |-> pages[i].title, URL |-> pages[i].url, Content |-> pages[i].content]]

\* ------------------------------------------------------------ LLM routing
Gpt4oMini == [provider |-> "openai", model |-> "gpt-4o-mini"]

\* what notDiamond.create can resolve to: nothing, a completion, or an
\* error object with a string or a non-string detail
RoutingResults ==
    { <<>>,
      << [content |-> "answer", providers |-> <<Gpt4oMini>>] >>,
      << [detail |-> [type |-> "string", value |-> "rate limited"]] >>,
      << [detail |-> [type |-> "object", value |-> "{}"]] >> }

\* result.f, <<>> when the object has no such property
Property(obj, f) == IF f \in DOMAIN obj THEN <<obj[f]>> ELSE <<>>

\* the object generateLLMResponse returns for a non-null routing result
LLMResponseOf(result) ==
    [content |-> Property(result, "content"), providers |-> Property(result, "providers")]

\* a handler that reports the clamped page count instead of the caller's
CrawlInfoClamped(b, sources) ==
    [requestedPages |-> ValidatedPagesToCrawl(PagesToCrawl(b)),
     actualPagesCrawled |-> Len(sources),
     embeddingsUsed |-> ~SkipEmbeddings(b)]

\* the crawlInfo object of the response
CrawlInfo(b, sources) ==
    [requestedPages |-> PagesToCrawl(b),
     actualPagesCrawled |-> Len(sources),
     embeddingsUsed |-> ~SkipEmbeddings(b)]

\* the rest of the handler once notDiamond.create has resolved
RespondTo(raw, b, sources) ==
    IF raw = <<>> THEN ErrorResponse(500, "Failed to generate LLM response")
    ELSE LET result == LLMResponseOf(raw[1])
         IN  IF "detail" \in DOMAIN result
             THEN ErrorResponse(500,
                      IF result.detail.type = "string" THEN result.detail.value
                      ELSE "Unknown error occurred")
             ELSE IF result.providers = <<>>
             THEN ErrorResponse(500, "Cannot read properties of undefined (reading '0')")
             ELSE SuccessResponse(
                      [answer |-> result.content,
                       selectedModel |-> Slice0(result.providers[1], 1),
                       crawlInfo |-> CrawlInfo(b, sources),
                       sources |-> sources])

\* ------------------------------------------------------------------ state
VARIABLES
    pc,                     \* where the handler is suspended
    body,                   \* the parsed request body
    validatedPagesToCrawl,  \* <<>> until computed
    searchResults,          \* links of the capped search results (mapAndScrapeUrls)
    filteredUrls,           \* argument of the batch scrape in flight (mapAndScrapeUrls)
    scrapedPages,           \* result of mapAndScrapeUrls
    sources,
    vectorStore,            \* <<>> (undefined) or <<index>>
    context,
    response,               \* <<>> until the handler returns, then <<response>>
    calls,                  \* collaborator calls issued so far, in order
    observed                \* what the collaborators did, for stating properties

vars == <<pc, body, validatedPagesToCrawl, searchResults, filteredUrls, scrapedPages,
          sources, vectorStore, context, response, calls, observed>>

NothingObserved ==
    [failed |-> "none", allUnsupported |-> FALSE, scrape |-> "none",
     submitted |-> 0, returned |-> 0, routing |-> "none"]

Init ==
    /\ pc = "received"
    /\ body \in RequestBody
    /\ validatedPagesToCrawl = <<>>
    /\ searchResults = <<>>
    /\ filteredUrls = <<>>
    /\ scrapedPages = <<>>
    /\ sources = <<>>
    /\ vectorStore = <<>>
    /\ context = [kind |-> "none", value |-> <<>>]
    /\ response = <<>>
    /\ calls = <<>>
    /\ observed = NothingObserved

\* the catch block of the handler
Fail(msg) ==
    /\ response' = <<ErrorResponse(500, msg)>>
    /\ pc' = "done"

\* ---------------------------------------------------------------- actions
\* the handler up to the 400 response: the message is missing or empty
RejectRequest ==
    /\ pc = "received"
    /\ MessageMissing(body)
    /\ response' = <<ErrorResponse(400, "Message is required")>>
    /\ pc' = "done"
    /\ UNCHANGED <<body, validatedPagesToCrawl, searchResults, filteredUrls, scrapedPages,
                   sources, vectorStore, context, calls, observed>>

\* the handler up to the fetch of the search endpoint
StartSearch ==
    /\ pc = "received"
    /\ ~MessageMissing(body)
    /\ validatedPagesToCrawl' = <<ValidatedPagesToCrawl(PagesToCrawl(body))>>
    /\ calls' = Append(calls, "search")
    /\ pc' = "searching"
    /\ UNCHANGED <<body, searchResults, filteredUrls, scrapedPages, sources, vectorStore,
                   context, response, observed>>

\* the search fails: the error is rethrown up to the handler's catch
SearchFails ==
    /\ pc = "searching"
    /\ \E resp \in SearchResponses :
         /\ SearchThrows(resp)
         /\ Fail(SearchErrorMessage(resp))
         /\ observed' = [observed EXCEPT !.failed =
                            IF resp.kind = "reject" \/ ~resp.ok \/ resp.organic = <<>>
                            THEN "search" ELSE @]
    /\ UNCHANGED <<body, validatedPagesToCrawl, searchResults, filteredUrls, scrapedPages,
                   sources, vectorStore, context, calls>>

\* the search resolves and no link survives the filter: mapAndScrapeUrls
\* returns the "No valid URLs" page without calling the scraper
SearchLeavesNoUrl ==
    /\ pc = "searching"
    /\ \E resp \in SearchResponses :
         /\ ~SearchThrows(resp)
         /\ LET links == SearchLinks(resp, validatedPagesToCrawl[1])
            IN  /\ Len(FilterUrls(links)) = 0
                /\ scrapedPages' = NoValidUrlsPages
                /\ observed' = [observed EXCEPT
                                   !.failed = IF resp.kind = "reject" \/ ~resp.ok
                                              THEN "search" ELSE @,
                                   !.allUnsupported = \A i \in 1..Len(links) : IsUnsupported(links[i])]
    /\ pc' = "scraped"
    /\ UNCHANGED <<body, validatedPagesToCrawl, searchResults, filteredUrls, sources,
                   vectorStore, context, response, calls>>

\* the search resolves and some link survives: the batch scrape is issued
SearchThenScrape ==
    /\ pc = "searching"
    /\ \E resp \in SearchResponses :
         /\ ~SearchThrows(resp)
         /\ LET links == SearchLinks(resp, validatedPagesToCrawl[1])
            IN  /\ Len(FilterUrls(links)) # 0
                /\ searchResults' = links
                /\ filteredUrls' = FilterUrls(links)
                /\ observed' = [observed EXCEPT
                                   !.failed = IF resp.kind = "reject" \/ ~resp.ok
                                              THEN "search" ELSE @,
                                   !.allUnsupported = \A i \in 1..Len(links) : IsUnsupported(links[i]),
                                   !.submitted = Len(FilterUrls(links))]
    /\ calls' = Append(calls, "scrape")
    /\ pc' = "scraping"
    /\ UNCHANGED <<body, validatedPagesToCrawl, scrapedPages, sources, vectorStore,
                   context, response>>

\* the batch scrape rejects
ScrapeFails ==
    /\ pc = "scraping"
    /\ Fail("Firecrawl request failed")
    /\ observed' = [observed EXCEPT !.failed = "scrape"]
    /\ UNCHANGED <<body, validatedPagesToCrawl, searchResults, filteredUrls, scrapedPages,
                   sources, vectorStore, context, calls>>

\* the batch scrape resolves and mapAndScrapeUrls returns
ScrapeReturns ==
    /\ pc = "scraping"
    /\ \E resp \in ScrapeResponses :
         /\ resp.kind = "response"
         /\ scrapedPages' = ScrapedPagesOf(resp)
         /\ observed' = [observed EXCEPT
                            !.scrape = IF ~resp.success \/ resp.data = <<>>
                                       THEN "failure" ELSE "data",
                            !.returned = IF resp.data = <<>> THEN 0 ELSE Len(resp.data[1])]
    /\ searchResults' = <<>>
    /\ filteredUrls' = <<>>
    /\ pc' = "scraped"
    /\ UNCHANGED <<body, validatedPagesToCrawl, sources, vectorStore, context, response,
                   calls>>

\* direct mode: the context is built and the routing call is issued
BuildDirectContext ==
    /\ pc = "scraped"
    /\ SkipEmbeddings(body)
    /\ sources' = SourcesOf(scrapedPages)
    /\ context' = [kind |-> "string", value |-> ProcessDirectContext(scrapedPages)]
    /\ calls' = Append(calls, "llm")
    /\ pc' = "routing"
    /\ UNCHANGED <<body, validatedPagesToCrawl, searchResults, filteredUrls, scrapedPages,
                   vectorStore, response, observed>>

\* embedding mode: one embedding call per page is issued, all at once
StartEmbeddings ==
    /\ pc = "scraped"
    /\ ~SkipEmbeddings(body)
    /\ Len(scrapedPages) > 0
    /\ sources' = SourcesOf(scrapedPages)
    /\ calls' = calls \o [i \in 1..Len(scrapedPages) |-> "embed"]
    /\ pc' = "embedding"
    /\ UNCHANGED <<body, validatedPagesToCrawl, searchResults, filteredUrls, scrapedPages,
                   vectorStore, context, response, observed>>

\* embedding mode with no page: processWithEmbeddings returns undefined and
\* the similarity search on it throws
EmbedNothing ==
    /\ pc = "scraped"
    /\ ~SkipEmbeddings(body)
    /\ Len(scrapedPages) = 0
    /\ sources' = SourcesOf(scrapedPages)
    /\ vectorStore' = ProcessWithEmbeddings(scrapedPages, <<>>)
    /\ Fail("Cannot read properties of undefined (reading 'similaritySearch')")
    /\ observed' = [observed EXCEPT !.failed = "index"]
    /\ UNCHANGED <<body, validatedPagesToCrawl, searchResults, filteredUrls, scrapedPages,
                   context, calls>>

\* an embedding call of some page rejects
EmbeddingsFail ==
    /\ pc = "embedding"
    /\ Fail("Embedding request failed")
    /\ observed' = [observed EXCEPT !.failed = "embed"]
    /\ UNCHANGED <<body, validatedPagesToCrawl, searchResults, filteredUrls, scrapedPages,
                   sources, vectorStore, context, calls>>

\* all pages are embedded: the stores are combined and the query embedded
EmbeddingsReturn ==
    /\ pc = "embedding"
    /\ \E windows \in [1..Len(scrapedPages) -> 1..MaxWindows] :
         /\ \A i \in 1..Len(scrapedPages) : windows[i] \in WindowCounts(scrapedPages[i])
         /\ vectorStore' = ProcessWithEmbeddings(scrapedPages, windows)
    /\ calls' = Append(calls, "embed")
    /\ pc' = "querying"
    /\ UNCHANGED <<body, validatedPagesToCrawl, searchResults, filteredUrls, scrapedPages,
                   sources, context, response, observed>>

\* the embedding call of the query rejects
QueryFails ==
    /\ pc = "querying"
    /\ Fail("Embedding request failed")
    /\ observed' = [observed EXCEPT !.failed = "embed"]
    /\ UNCHANGED <<body, validatedPagesToCrawl, searchResults, filteredUrls, scrapedPages,
                   sources, vectorStore, context, calls>>

\* the similarity search returns and the routing call is issued
QueryReturns ==
    /\ pc = "querying"
    /\ \E excerpts \in SimilaritySearch(vectorStore[1], numberOfSimilarityResults) :
         context' = [kind |-> "excerpts", value |-> excerpts]
    /\ calls' = Append(calls, "llm")
    /\ pc' = "routing"
    /\ UNCHANGED <<body, validatedPagesToCrawl, searchResults, filteredUrls, scrapedPages,
                   sources, vectorStore, response, observed>>

\* the routing call rejects
RoutingFails ==
    /\ pc = "routing"
    /\ Fail("Not Diamond request failed")
    /\ observed' = [observed EXCEPT !.failed = "llm"]
    /\ UNCHANGED <<body, validatedPagesToCrawl, searchResults, filteredUrls, scrapedPages,
                   sources, vectorStore, context, calls>>

\* the routing call resolves: the answer is validated and the response built
RoutingReturns ==
    /\ pc = "routing"
    /\ \E raw \in RoutingResults :
         /\ response' = <<RespondTo(raw, body, sources)>>
         /\ observed' = [observed EXCEPT !.routing =
                            IF raw = <<>> THEN "null"
                            ELSE IF "detail" \in DOMAIN raw[1]
                                 THEN (IF raw[1].detail.type = "string"
                                       THEN "detail-string" ELSE "detail-other")
                                 ELSE "completion"]
    /\ pc' = "done"
    /\ UNCHANGED <<body, validatedPagesToCrawl, searchResults, filteredUrls, scrapedPages,
                   sources, vectorStore, context, calls>>

Next ==
    \/ RejectRequest
    \/ StartSearch
    \/ SearchFails
    \/ SearchLeavesNoUrl
    \/ SearchThenScrape
    \/ ScrapeFails
    \/ ScrapeReturns
    \/ BuildDirectContext
    \/ StartEmbeddings
    \/ EmbedNothing
    \/ EmbeddingsFail
    \/ EmbeddingsReturn
    \/ QueryFails
    \/ QueryReturns
    \/ RoutingFails
    \/ RoutingReturns

Spec == Init /\ [][Next]_vars

\* ----------------------------------------------------------------- claims
Succeeded == response # <<>> /\ response[1].payload # <<>>

Payload == response[1].payload[1]

Count(s, x) == Cardinality({i \in 1..Len(s) : s[i] = x})

\* the place of a collaborator in the pipeline
Rank(call) ==
    CASE call = "search" -> 1
      [] call = "scrape" -> 2
      [] call = "embed" -> 3
      [] call = "llm" -> 4

\* the caller-supplied pagesToCrawl, or the default when it is absent
Supplied == IF body.pagesToCrawl = <<>> THEN 3 ELSE body.pagesToCrawl[1]

\* C1: whenever the search and scrape stages complete without throwing, the
\* list of pages handed to context building, and the sources reported in a
\* success payload, have at least one element
C1_AtLeastOnePage ==
    /\ pc = "scraped" => Len(scrapedPages) >= 1
    /\ Succeeded => Len(Payload.sources) >= 1

\* C2: the URLs passed to the scraper are among the capped search links,
\* and no source of a success payload has a URL containing a denylisted
\* domain (case-insensitively)
C2_NoDenylistedSource ==
    /\ pc = "scraping" => Range(filteredUrls) \subseteq Range(searchResults)
    /\ Succeeded =>
         \A i \in 1..Len(Payload.sources) :
            \A d \in 1..Len(unsupportedDomains) :
               ~Includes(ToLowerCase(Payload.sources[i].url), unsupportedDomains[d])

\* C3: a failing stage ends the request in the error response with no
\* payload; no collaborator is called after the failing stage; search,
\* scrape and LLM routing are each called at most once, and calls follow
\* the order search, scrape, context build, answer
C3_FailureIsTerminal ==
    /\ observed.failed # "none" =>
         /\ pc = "done"
         /\ response # <<>>
         /\ response[1].status = 500
         /\ response[1].error # <<>>
         /\ response[1].payload = <<>>
    /\ observed.failed = "search" => calls = <<"search">>
    /\ observed.failed = "scrape" => calls = <<"search", "scrape">>
    /\ observed.failed \in {"embed", "index"} => Count(calls, "llm") = 0
    /\ observed.failed = "llm" => calls[Len(calls)] = "llm"
    /\ Count(calls, "search") <= 1
    /\ Count(calls, "scrape") <= 1
    /\ Count(calls, "llm") <= 1
    /\ \A i, j \in 1..Len(calls) : i < j => Rank(calls[i]) <= Rank(calls[j])

C3_Witness ==
    /\ observed.failed = "embed"
    /\ pc = "done"
    /\ calls = <<"search", "scrape", "embed", "embed", "embed">>

\* C4: when the routing collaborator returns nothing or an error object,
\* the request ends in the 500 error response, whose error text is the
\* detail when the detail is a string and "Unknown error occurred" otherwise
C4_RoutingErrorReported ==
    (pc = "done" /\ observed.routing \in {"null", "detail-string", "detail-other"}) =>
        /\ response[1].status = 500
        /\ response[1].payload = <<>>
        /\ response[1].error =
              IF observed.routing = "detail-string" THEN <<"rate limited">>
              ELSE <<"Unknown error occurred">>

\* C5: when every capped search result is removed by the filter, or there
\* is none, the scraper is not called, and if context building and routing
\* succeed the response is a success payload whose only source is the
\* "No valid URLs" sentinel
C5_NoValidUrlsSentinel ==
    observed.allUnsupported =>
        /\ Count(calls, "scrape") = 0
        /\ (pc = "done" /\ observed.failed = "none" /\ observed.routing = "completion") =>
              /\ Succeeded
              /\ Len(Payload.sources) = 1
              /\ Payload.sources[1].url = NoValidUrl

C5_Witness ==
    /\ observed.allUnsupported
    /\ pc = "done"
    /\ Succeeded
    /\ Payload.crawlInfo.embeddingsUsed
    /\ Payload.sources[1].url = NoValidUrl

\* C6: when the batch scrape reports failure or carries no data, no error
\* is raised by the scrape stage, its result is the single "Scraping
\* failed" page, and the request goes on to context building and, unless
\* an embedding call fails, to the routing call
C6_ScrapeFailureDegrades ==
    observed.scrape = "failure" =>
        /\ observed.failed \notin {"scrape", "index"}
        /\ Len(scrapedPages) = 1
        /\ scrapedPages[1].url = ScrapingFailedUrl
        /\ pc \in {"scraped", "embedding", "querying", "routing", "done"}
        /\ (pc = "done" /\ observed.failed # "embed") => Count(calls, "llm") = 1

C6_Witness ==
    /\ observed.scrape = "failure"
    /\ pc = "done"
    /\ Succeeded
    /\ Payload.sources[1].url = ScrapingFailedUrl

\* C7: a request whose message is missing or empty gets the 400 response
\* "Message is required" and no collaborator is called for it
C7_MissingMessageRejected ==
    body.message \in {<<>>, <<"">>} =>
        /\ calls = <<>>
        /\ pc \in {"received", "done"}
        /\ pc = "done" =>
              /\ response[1].status = 400
              /\ response[1].error = <<"Message is required">>
              /\ response[1].payload = <<>>

C7_Witness ==
    /\ body.message = <<"">>
    /\ pc = "done"
    /\ response[1].status = 400
    /\ calls = <<>>

\* C8: the result count used by the search stage is the supplied (or
\* default) pagesToCrawl brought into 1..10, and at most 10 URLs are sent
\* to the scraper
C8_PagesClamped ==
    validatedPagesToCrawl # <<>> =>
        LET v == validatedPagesToCrawl[1]
        IN  /\ v \in 1..10
            /\ Supplied < 1 => v = 1
            /\ Supplied > 10 => v = 10
            /\ Supplied \in 1..10 => v = Supplied
            /\ Len(searchResults) <= v
            /\ Len(filteredUrls) <= 10

C8_Witness ==
    /\ pc = "scraping"
    /\ Supplied > 10
    /\ Len(filteredUrls) = 10

\* C9: in embedding mode the index that is searched holds vectors of every
\* scraped page, each tagged with its own page's url and title
C9_IndexHoldsEveryPage ==
    vectorStore # <<>> =>
        \A i \in 1..Len(scrapedPages) :
           \E j \in 1..Len(vectorStore[1]) :
              /\ vectorStore[1][j].content[1] = i
              /\ vectorStore[1][j].metadata.url = scrapedPages[i].url
              /\ vectorStore[1][j].metadata.title = scrapedPages[i].title

\* C10: a success payload reports the supplied (or default) pagesToCrawl as
\* requestedPages, which differs from the clamped count when the supplied
\* value is outside 1..10; actualPagesCrawled is the number of sources and
\* is at most the clamped count unless the scraper returned more documents
\* than it was given URLs
C10_CrawlInfo ==
    Succeeded =>
        /\ Payload.crawlInfo.requestedPages = Supplied
        /\ Supplied \notin 1..10 =>
              Payload.crawlInfo.requestedPages # validatedPagesToCrawl[1]
        /\ Payload.crawlInfo.actualPagesCrawled = Len(Payload.sources)
        /\ observed.returned <= observed.submitted =>
              Payload.crawlInfo.actualPagesCrawled <= validatedPagesToCrawl[1]

C10_Witness ==
    /\ Succeeded
    /\ Supplied > 10
    /\ Payload.crawlInfo.requestedPages > 10
    /\ Payload.crawlInfo.actualPagesCrawled = 2
    /\ observed.returned = 2
    /\ observed.submitted >= 2
====
